---- MODULE Spec2Model ----
(***************************************************************************)
(* arovia-backend: the analysis pipeline                                   *)
(*   analyze route -> analyzeMerged -> withRetries -> analyzeWithGroq      *)
(* The repository holds two revisions of services/analyzeService.ts and    *)
(* two revisions of services/groqAdapter.ts; the model carries the         *)
(* revision in use as part of the state (svc, adapter), fixed at Init.     *)
(*                                                                         *)
(* Value conventions (JavaScript values as TLA+ values):                   *)
(*   - a numeric status of 0 stands for an undefined status (both falsy),  *)
(*   - the string "" stands for an undefined string-valued property,       *)
(*   - a document field holds "absent" for undefined and "NUM" for a       *)
(*     truthy value that is not a string,                                  *)
(*   - percentages are integers in hundredths (4004 is 40.04).             *)
(***************************************************************************)
EXTENDS Integers, Sequences, FiniteSets, TLC

\* ---------------------------------------------------------------- bounds
\* longest prediction list the external model returns
MaxPreds == 2

\* ------------------------------------------------------ program constants
\* default `retries` of withRetries (both revisions)
Retries == 3
\* default `baseDelayMs` of the back-off revision
BaseDelayMs == 500
\* default `delayMs` of the fixed-delay revision
DelayMs == 1000

\* ------------------------------------------------------------- documents
T2D == [condition |-> "Type 2 Diabetes", years |-> 2, probability_pct |-> 4004]
CVD == [condition |-> "Cardiovascular Disease", years |-> 5, probability_pct |-> -100]
\* a prediction whose condition name is missing
NoName == [condition |-> "absent", years |-> 2, probability_pct |-> 1200]

PredValues == {T2D, CVD, NoName}

RECURSIVE SeqsUpTo(_, _)
SeqsUpTo(S, n) ==
  IF n = 0 THEN {<<>>}
  ELSE LET shorter == SeqsUpTo(S, n - 1)
       IN  shorter \cup {Append(s, x) : s \in {t \in shorter : Len(t) = n - 1}, x \in S}

Absent == [tag |-> "absent", items |-> <<>>]
Obj(items) == [tag |-> "obj", items |-> items]

\* what the external model may put in each field of its JSON object
ModelVersionValues == {"absent", "m1", "NUM"}
GeneratedOnValues == {"absent", "2025-01-01T00:00:00Z"}
SummaryValues == {"absent"}
PredictionsValues == {Absent} \cup {Obj(s) : s \in SeqsUpTo(PredValues, MaxPreds)}
DeltaOf(c, b, p, d) ==
  [condition |-> c, baseline_pct |-> b, projection_pct |-> p, delta_pct |-> d]
\* the baseline / projection / deltas parts the external model may return:
\* none, a projection alone, all three, a projection with a nameless entry
SplitValues ==
  {[baseline |-> Absent, projection |-> Absent, deltas |-> Absent],
   [baseline |-> Absent, projection |-> Obj(<<T2D>>), deltas |-> Absent],
   [baseline |-> Obj(<<CVD>>), projection |-> Obj(<<T2D>>),
    deltas |-> Obj(<<DeltaOf("Type 2 Diabetes", -100, 4004, -100)>>)],
   [baseline |-> Absent, projection |-> Obj(<<NoName>>), deltas |-> Absent]}
ExplainValues == {"absent", "top_features", "freeform"}

Docs ==
  {[model_version |-> mv, generated_on |-> go, summary |-> su, predictions |-> pr,
    baseline |-> sp.baseline, projection |-> sp.projection, deltas |-> sp.deltas,
    explainability |-> ex] :
     mv \in ModelVersionValues, go \in GeneratedOnValues, su \in SummaryValues,
     pr \in PredictionsValues, sp \in SplitValues, ex \in ExplainValues}

\* the object {} and the SDK's message object {role, content: null}
EmptyDoc ==
  [model_version |-> "absent", generated_on |-> "absent", summary |-> "absent",
   predictions |-> Absent, baseline |-> Absent, projection |-> Absent,
   deltas |-> Absent, explainability |-> "absent"]

\* ---------------------------------------------------------------- errors
\* status: err.response.status || err.status (0 when neither is set);
\* code: err.code; msg: err.message; at: the call that produced the error
\* object (its identity).
ErrorOf(status, code, msg, at) ==
  [status |-> status, code |-> code, msg |-> msg, at |-> at]

NoErr == ErrorOf(0, "", "", 0)

\* what client.chat.completions.create may reject with
UpstreamFailures ==
  {[status |-> 500, code |-> "", msg |-> "internal server error"],
   [status |-> 429, code |-> "", msg |-> "rate limit exceeded"],
   [status |-> 404, code |-> "", msg |-> "model_not_found"],
   [status |-> 400, code |-> "", msg |-> "bad request"],
   [status |-> 0, code |-> "ECONNRESET", msg |-> "socket hang up"],
   [status |-> 0, code |-> "", msg |-> "fetch failed"]}

MsgRateLimitNew == "Groq rate limit or quota error"
MsgRateLimitOld == "Rate limit reached. Please try again in a moment."
MsgModelError == "Model error from Groq: model_not_found"
MsgNoText == "Groq returned no textual output"
MsgParseBlock == "Failed to parse JSON from the model output after extracting JSON block"
MsgParseNoBlock == "Failed to parse JSON from model output and no JSON block found"
MsgMissing == "mergedPayload is required"
MsgInvalidFlat == "Invalid analysis result from Groq"
MsgInvalidV2 == "Invalid analysis returned from model"

\* message.includes('rate limit'), case-sensitive
IncludesRateLimit(m) == m \in {"rate limit exceeded", MsgRateLimitNew}
\* message.toLowerCase() includes "rate limit" or "quota"
LowerIncludesRateLimitOrQuota(m) ==
  m \in {"rate limit exceeded", MsgRateLimitNew, MsgRateLimitOld}
\* message.toLowerCase() includes "model_not_found", "does not exist" or "not supported"
LowerIncludesModelError(m) == m \in {"model_not_found", MsgModelError}

\* ------------------------------------------------- model output as text
\* A text is a sequence of tokens: "{" and "}" are the brace characters, "D"
\* the members of the JSON object the model produced, "P" a run of prose
\* without braces.
Texts ==
  {<<"{", "D", "}">>,
   <<"{", "}">>,
   <<"P", "{", "D", "}", "P">>,
   <<"P", "{", "}", "P", "{", "D", "}">>,
   <<"{", "D">>,
   <<"P">>,
   <<>>}

HasMembers(t) == \E k \in 1..Len(t) : t[k] = "D"

\* JSON.parse: the text is one object, with or without members
JsonParses(t) == t = <<"{", "D", "}">> \/ t = <<"{", "}">>
JsonValue(t, doc) == IF HasMembers(t) THEN doc ELSE EmptyDoc

\* outputText.match(/\{[\s\S]*\}/): leftmost "{", then greedily to the last "}"
HasBlock(t) == \E a, b \in 1..Len(t) : a < b /\ t[a] = "{" /\ t[b] = "}"
BlockOf(t) ==
  LET b == CHOOSE k \in 1..Len(t) : t[k] = "}" /\ \A j \in (k + 1)..Len(t) : t[j] # "}"
      a == CHOOSE k \in 1..b : t[k] = "{" /\ \A j \in 1..(k - 1) : t[j] # "{"
  IN  SubSeq(t, a, b)


\* prose, which may hold brace characters of its own, around one object
MaxProse == 2
ProseTokens == {"P", "{", "}"}
ProseRuns == SeqsUpTo(ProseTokens, MaxProse)
\* a run of prose that holds no "{" with a "}" after it, hence no object
NoObjectIn(run) ==
  ~\E a, b \in 1..Len(run) : a < b /\ run[a] = "{" /\ run[b] = "}"
Wrapped(before, after) == before \o <<"{", "D", "}">> \o after
WrappedTexts ==
  {Wrapped(b, a) : b \in {r \in ProseRuns : NoObjectIn(r)},
                   a \in {r \in ProseRuns : NoObjectIn(r)}}
    \ {<<"{", "D", "}">>}

\* ------------------------------------------------ external model replies
NoFailure == [status |-> 0, code |-> "", msg |-> ""]
ReplyOf(kind, fail, text, doc) ==
  [kind |-> kind, fail |-> fail, text |-> text, doc |-> doc]

\* one reply of client.chat.completions.create: a rejection, a message whose
\* content is an object, a string or null, or a completion without choices
Replies ==
  {ReplyOf("error", f, <<>>, EmptyDoc) : f \in UpstreamFailures}
  \cup {ReplyOf("object", NoFailure, <<>>, d) : d \in Docs}
  \cup {ReplyOf("text", NoFailure, t, d) : t \in {u \in Texts : HasMembers(u)}, d \in Docs}
  \cup {ReplyOf("text", NoFailure, t, EmptyDoc) : t \in {u \in Texts : ~HasMembers(u)}}
  \cup {ReplyOf("null", NoFailure, <<>>, EmptyDoc),
        ReplyOf("nochoice", NoFailure, <<>>, EmptyDoc)}

\* -------------------------------------------------------- analyzeWithGroq
\* parsed.model_version = parsed.model_version || `${model}-v1`;
\* parsed.generated_on = parsed.generated_on || new Date().toISOString()
Backfill(doc) ==
  [doc EXCEPT !.model_version = IF @ = "absent" THEN "model-v1" ELSE @,
              !.generated_on = IF @ = "absent" THEN "now" ELSE @]

\* outcome of one call: `parsed` is the object before the metadata is filled in
Returned(doc) == [ok |-> TRUE, value |-> Backfill(doc), parsed |-> doc, err |-> NoErr]
Threw(e) == [ok |-> FALSE, value |-> EmptyDoc, parsed |-> EmptyDoc, err |-> e]

\* JSON.parse(outputText), else JSON.parse of the matched block
ParseOutput(t, doc) ==
  IF JsonParses(t) THEN [ok |-> TRUE, value |-> JsonValue(t, doc), msg |-> ""]
  ELSE IF HasBlock(t)
       THEN IF JsonParses(BlockOf(t))
            THEN [ok |-> TRUE, value |-> JsonValue(BlockOf(t), doc), msg |-> ""]
            ELSE [ok |-> FALSE, value |-> EmptyDoc, msg |-> MsgParseBlock]
       ELSE [ok |-> FALSE, value |-> EmptyDoc, msg |-> MsgParseNoBlock]

\* the catch block of the current adapter
CatchNew(e) ==
  IF LowerIncludesRateLimitOrQuota(e.msg) THEN ErrorOf(0, "", MsgRateLimitNew, e.at)
  ELSE IF LowerIncludesModelError(e.msg) THEN ErrorOf(0, "", MsgModelError, e.at)
  ELSE e

\* the catch block of the earlier adapter
CatchOld(e) ==
  IF IncludesRateLimit(e.msg) THEN ErrorOf(0, "", MsgRateLimitOld, e.at)
  ELSE e

\* the current adapter, called for the n-th time, on reply r
AnalyzeWithGroqNew(r, n) ==
  IF r.kind = "error" THEN Threw(CatchNew(ErrorOf(r.fail.status, r.fail.code, r.fail.msg, n)))
  ELSE IF r.kind = "object" THEN Returned(r.doc)
  ELSE IF r.kind = "null" THEN Returned(EmptyDoc)
  ELSE IF r.kind = "nochoice" \/ r.text = <<>>
       THEN Threw(CatchNew(ErrorOf(0, "", MsgNoText, n)))
  ELSE LET parsed == ParseOutput(r.text, r.doc)
       IN  IF parsed.ok THEN Returned(parsed.value)
           ELSE Threw(CatchNew(ErrorOf(0, "", parsed.msg, n)))

\* the earlier adapter: content that is not a non-empty string is rejected
\* (an object has no match method, which raises a TypeError)
AnalyzeWithGroqOld(r, n) ==
  IF r.kind = "error" THEN Threw(CatchOld(ErrorOf(r.fail.status, r.fail.code, r.fail.msg, n)))
  ELSE IF r.kind = "object"
       THEN Threw(CatchOld(ErrorOf(0, "", "outputText.match is not a function", n)))
  ELSE IF r.kind \in {"null", "nochoice"} \/ r.text = <<>>
       THEN Threw(CatchOld(ErrorOf(0, "", MsgNoText, n)))
  ELSE LET parsed == ParseOutput(r.text, r.doc)
       IN  IF parsed.ok THEN Returned(parsed.value)
           ELSE Threw(CatchOld(ErrorOf(0, "", parsed.msg, n)))

analyzeWithGroq(ad, r, n) ==
  IF ad = "new" THEN AnalyzeWithGroqNew(r, n) ELSE AnalyzeWithGroqOld(r, n)

\* ------------------------------------------------------------ withRetries
\* const status = err?.response?.status || err?.status || err?.code
\* (num is the numeric status, str the string code; both empty: undefined)
RetryStatus(e) ==
  IF e.status # 0 THEN [num |-> e.status, str |-> ""] ELSE [num |-> 0, str |-> e.code]

\* back-off revision: isRateLimit || (typeof status === 'number' && status >= 500) || !status
IsTransient(e) ==
  LET status == RetryStatus(e)
      isRateLimit == IncludesRateLimit(e.msg) \/ status.num = 429
  IN  \/ isRateLimit
      \/ status.num >= 500
      \/ (status.num = 0 /\ status.str = "")

\* does the catch block go on to another attempt (TRUE) or rethrow (FALSE)?
\* the fixed-delay revision has no classification
Retried(s, e) == IF s = "flat" THEN IsTransient(e) ELSE TRUE

\* (variant: the back-off does not grow)
DelayForNoGrowth(s, k) == IF s = "flat" THEN BaseDelayMs ELSE DelayMs

\* baseDelayMs * Math.pow(2, i), or the fixed delayMs
DelayFor(s, k) == IF s = "flat" THEN BaseDelayMs * (2 ^ k) ELSE DelayMs

\* does the catch block of attempt k sleep before the loop goes on?
\* (fixed-delay revision: if (i < retries - 1))
SleepsAfter(s, k) == IF s = "flat" THEN TRUE ELSE k < Retries - 1

\* (variant: the loop condition admits one pass too many)
LoopContinuesOffByOne(k) == k <= Retries

\* the loop condition, i < retries
LoopContinues(k) == k < Retries


\* ------------------------------------------------------- schemas (zod)
\* z.string(): a string; z.string().optional(): a string or undefined
IsString(v) == v \notin {"absent", "NUM"}
IsOptString(v) == v # "NUM"

\* Pred (condition: z.string(), years: z.number(), probability_pct: z.number())
PredOK(p) == p.condition # "absent"
\* PredictionSchema adds years: z.number().int().nonnegative()
PredictionSchemaOK(p) == PredOK(p) /\ p.years >= 0

AllPredOK(items) == \A k \in 1..Len(items) : PredOK(items[k])
AllPredictionSchemaOK(items) == \A k \in 1..Len(items) : PredictionSchemaOK(items[k])

\* AnalysisV2.safeParse(raw).success
V2Valid(raw) ==
  /\ IsString(raw.model_version)
  /\ IsString(raw.generated_on)
  /\ IsOptString(raw.summary)
  /\ raw.baseline.tag = "absent" \/ AllPredOK(raw.baseline.items)
  /\ raw.projection.tag = "absent" \/ AllPredOK(raw.projection.items)
  /\ raw.explainability \in {"absent", "top_features"}

\* v2.data: z.object strips the keys the schema does not name
V2Data(raw) == [raw EXCEPT !.predictions = Absent]

\* LegacyAnalysis.safeParse(raw).success
LegacyValid(raw) ==
  /\ IsOptString(raw.model_version)
  /\ IsOptString(raw.generated_on)
  /\ IsOptString(raw.summary)
  /\ raw.predictions.tag = "absent" \/ AllPredOK(raw.predictions.items)

LegacyData(raw) ==
  [raw EXCEPT !.baseline = Absent, !.projection = Absent, !.deltas = Absent]

\* (variant: a negative probability is replaced by 0)
LegacyDeltaClamped(p) ==
  DeltaOf(p.condition, -100, IF p.probability_pct < 0 THEN 0 ELSE p.probability_pct, -100)
\* the entry of `deltas` made from one legacy prediction
LegacyDelta(p) == DeltaOf(p.condition, -100, p.probability_pct, -100)

\* the object `out` built from legacy.data
Upgrade(ld) ==
  [model_version |-> IF ld.model_version = "absent" THEN "unknown-legacy"
                     ELSE ld.model_version,
   generated_on |-> IF ld.generated_on = "absent" THEN "now" ELSE ld.generated_on,
   summary |-> IF ld.summary = "absent" THEN "" ELSE ld.summary,
   predictions |-> Absent,
   baseline |-> Obj(<<>>),
   projection |-> Obj(ld.predictions.items),
   deltas |-> Obj([k \in 1..Len(ld.predictions.items) |->
                      LegacyDelta(ld.predictions.items[k])]),
   explainability |-> IF ld.explainability = "absent" THEN "empty"
                      ELSE ld.explainability]

\* AnalysisSchema.safeParse(rawResult).success (flat revision)
FlatValid(raw) ==
  /\ IsString(raw.model_version)
  /\ IsString(raw.generated_on)
  /\ IsOptString(raw.summary)
  /\ raw.predictions.tag = "obj" /\ AllPredictionSchemaOK(raw.predictions.items)
  /\ raw.explainability \in {"absent", "top_features"}

\* Math.round(p * 10) / 10 on hundredths
RoundPct(h) == ((h + 5) \div 10) * 10

\* parsed.data with the probabilities rounded
FlatData(raw) ==
  [raw EXCEPT !.baseline = Absent, !.projection = Absent, !.deltas = Absent,
              !.predictions = Obj([k \in 1..Len(raw.predictions.items) |->
                 [raw.predictions.items[k] EXCEPT !.probability_pct = RoundPct(@)]])]

\* (variant: the legacy schema is tried before the current one)
ResolveShapeLegacyFirst(s, raw) ==
  IF s = "flat"
  THEN IF FlatValid(raw) THEN "flat" ELSE "invalid"
  ELSE IF LegacyValid(raw) THEN "legacy"
       ELSE IF V2Valid(raw) THEN "v2"
       ELSE "invalid"

\* which branch of analyzeMerged handles the value withRetries returned
ResolveShape(s, raw) ==
  IF s = "flat"
  THEN IF FlatValid(raw) THEN "flat" ELSE "invalid"
  ELSE IF V2Valid(raw) THEN "v2"
       ELSE IF LegacyValid(raw) THEN "legacy"
       ELSE "invalid"

\* the value analyzeMerged returns on that branch
ShapedResult(shape, raw) ==
  IF shape = "flat" THEN FlatData(raw)
  ELSE IF shape = "v2" THEN V2Data(raw)
  ELSE IF shape = "legacy" THEN Upgrade(LegacyData(raw))
  ELSE EmptyDoc

\* -------------------------------------------------------- sanitizePayload
\* A property value of the payload: kind "absent" (no such key), "undef" (key
\* holding undefined), "str" or "num"; chars are the characters of the string,
\* or the decimal digits of the number.  A notes value keeps its length only.
MaxAbhaLen == 8
MaxRecs == 1
AbhaKeep == 6
NotesLimit == 1000
UserTag == <<"u", "s", "e", "r", "_">>
DigitChars == <<"1", "2", "3", "4", "5", "6", "7", "8", "9", "0">>
Digits(n) == [k \in 1..n |-> DigitChars[((k - 1) % 10) + 1]]
Prop(kind, chars) == [kind |-> kind, chars |-> chars]
NoProp == Prop("absent", <<>>)
Notes(kind, len) == [kind |-> kind, len |-> len]
NoNotes == Notes("absent", 0)
AbhaValues ==
  {NoProp, Prop("undef", <<>>), Prop("num", <<"0">>), Prop("num", Digits(MaxAbhaLen))}
    \cup {Prop("str", Digits(n)) : n \in 0..MaxAbhaLen}
    \cup {Prop("str", UserTag \o Digits(n)) : n \in {3, AbhaKeep}}
NotesValues ==
  {NoNotes, Notes("undef", 0), Notes("num", 0)}
    \cup {Notes("str", n) : n \in {0, 1, NotesLimit, NotesLimit + 1}}
NameValues == {"absent", "Asha Rao"}
EmailValues == {"absent", "asha@example.in"}
PhoneValues == {"absent", "9810012345"}
Nested == [name : NameValues, email : EmailValues, phone : PhoneValues]
NoNested == [name |-> "absent", email |-> "absent", phone |-> "absent"]
StoredDocs == [source : {"manual"}, payload : Nested]
Payload(n, e, p, a, t, recs, life) ==
  [name |-> n, email |-> e, phone |-> p, abha_id |-> a, notes |-> t,
   baselineRecords |-> recs, lifestyle |-> life]
EmptyPayload == Payload("absent", "absent", "absent", NoProp, NoNotes, <<>>, NoNested)

\* route: merged = { baselineRecords: docs.map(d => ({source, payload, createdAt})), lifestyle }
Merged(docs, lifestyle) ==
  Payload("absent", "absent", "absent", NoProp, NoNotes, docs, lifestyle)
MergedInputs ==
  {Merged(docs, life) : docs \in SeqsUpTo(StoredDocs, MaxRecs), life \in Nested}
DirectInputs ==
  {Payload(n, e, p, a, t, <<>>, NoNested) :
     n \in NameValues, e \in EmailValues, p \in PhoneValues,
     a \in AbhaValues, t \in NotesValues}

\* JSON.parse(JSON.stringify(raw)): a key holding undefined is dropped
JsonCopyProp(v) == IF v.kind = "undef" THEN NoProp ELSE v
JsonCopyNotes(v) == IF v.kind = "undef" THEN NoNotes ELSE v
JsonCopy(x) ==
  [x EXCEPT !.abha_id = JsonCopyProp(@), !.notes = JsonCopyNotes(@)]
\* the truthiness of a property value
Truthy(v) ==
  \/ v.kind = "str" /\ v.chars # <<>>
  \/ v.kind = "num" /\ v.chars # <<"0">>
\* String(v).slice(-n)
SliceLastWhole(s, n) == s
SliceLast(s, n) == IF Len(s) <= n THEN s ELSE SubSeq(s, Len(s) - n + 1, Len(s))
\* s.slice(0, n), on the length
SliceFirst(len, n) == IF len <= n THEN len ELSE n
sanitizePayload(x) ==
  LET copy == JsonCopy(x)
  IN  [copy EXCEPT
         !.name = "absent",
         !.email = "absent",
         !.phone = "absent",
         !.abha_id = IF Truthy(@)
                     THEN Prop("str", UserTag \o SliceLast(@.chars, AbhaKeep))
                     ELSE @,
         !.notes = IF @.kind = "str" /\ @.len > 0
                   THEN Notes("str", SliceFirst(@.len, NotesLimit))
                   ELSE @]

\* ------------------------------------------------- routes and rate limiter
\* A stored record is known by its position in the collection (its _id);
\* req is the analyze request that created it, 0 for a health record.
Points == 10
FindLimit == 10
MaxStore == 3
Reqs == {1, 2}
Subjects == {"u1", "u2"}
Record(u, src, r, input) == [userId |-> u, source |-> src, req |-> r, input |-> input]
\* the revisions of the analyze route: with and without the rate limiter
Limit(rt) == IF rt = "limited" THEN FindLimit ELSE 1
Take(seq, n) == IF Len(seq) <= n THEN seq ELSE SubSeq(seq, 1, n)
RECURSIVE Newest(_, _, _)
Newest(st, u, k) ==
  IF k = 0 THEN <<>>
  ELSE IF st[k].userId = u THEN <<k>> \o Newest(st, u, k - 1)
  ELSE Newest(st, u, k - 1)
RECURSIVE NewestOfAll(_, _)
NewestOfAll(st, k) == IF k = 0 THEN <<>> ELSE <<k>> \o NewestOfAll(st, k - 1)
\* HealthRecord.find({ userId }).sort({ createdAt: -1 }).limit(lim)
FindAnySubject(st, u, lim) == Take(NewestOfAll(st, Len(st)), lim)
Find(st, u, lim) == Take(Newest(st, u, Len(st)), lim)
\* the merged payload: the records found and the lifestyle object of the body
MergedIds(docs, life) == [baselineRecords |-> docs, lifestyle |-> life]
\* a record of the health route: it has no meta.inputHash
HealthDoc(u) == Record(u, "manual", 0, MergedIds(<<>>, "none"))
\* HealthRecord.create(doc)
CreateReplacing(st, doc) == IF st = <<>> THEN <<doc>> ELSE [st EXCEPT ![Len(st)] = doc]
Create(st, doc) == Append(st, doc)
\* req.user?.id || req.ip
KeyOf(auth) == IF auth = "nosub" THEN "ip" ELSE auth
Keys == {"a1", "ip"}
\* the body passes: analyzeSchema.safeParse, or !userId || !lifestyle
ValidBody(rt, userId, life) ==
  IF rt = "limited" THEN userId # "" ELSE userId # "" /\ life # "absent"
\* lifestyle after parsing: the schema's default {} when it is absent
LifeOf(rt, life) == IF rt = "limited" /\ life = "absent" THEN "empty" ELSE life
Request(userId, life, auth) ==
  [pc |-> "new", userId |-> userId, life |-> life, auth |-> auth, docs |-> <<>>,
   status |-> 0, calls |-> 0, exhausted |-> "unknown", foundLen |-> 0]

\* ------------------------------------------------------------ analyzeBatch
\* The analyses are known by their positions 1..n in the array; batchSize is
\* a positive integer and the pause is the default delayMs.
MaxItems == 4
MaxBatch == 3
BatchDelayMs == 2000
\* analyses.slice(i, i + batchSize), as positions
BatchOf(i, size, n) == {k \in 1..n : i < k /\ k <= i + size}
\* if (i + batchSize < analyses.length)
PauseNeededAlways(i, size, n) == TRUE
PauseNeeded(i, size, n) == i + size < n
\* batchResults.forEach: result.value of a fulfilled entry (here the position
\* of its analysis), null (here 0) for a rejected one, in the order of the batch
RECURSIVE Collected(_, _, _)
CollectedNewestFirst(out, from, to) ==
  [k \in 1..(to - from + 1) |-> IF out[to - k + 1] = "fulfilled" THEN to - k + 1 ELSE 0]
Collected(out, from, to) ==
  IF from > to THEN <<>>
  ELSE <<IF out[from] = "fulfilled" THEN from ELSE 0>> \o Collected(out, from + 1, to)

\* ------------------------------------------------------------------ state
VARIABLES
  svc,        \* revision of analyzeService.ts: "flat" or "split"
  adapter,    \* revision of groqAdapter.ts: "old" or "new"
  merged,     \* the mergedPayload argument: "object" or "undefined"
  pc,         \* position of the request
  i,          \* withRetries: loop index
  lastErr,    \* withRetries: lastErr
  thrown,     \* withRetries: per failed attempt, the error fn threw (err) and
              \* the rejection of the service behind it (cause), in order
  calls,      \* requests sent to the external service
  delays,     \* durations of the sleeps performed, in order
  modelDoc,   \* the object the model's reply parsed to
  raw,        \* analyzeMerged: the value withRetries returned
  shape,      \* analyzeMerged: the branch that produced the result
  result,     \* analyzeMerged: the value returned
  raised,     \* the error the request failed with
  log,        \* logger entries, in order
  store,      \* HealthRecord documents created by the route
  response    \* the HTTP response of the route

\* sanitizePayload applied to a payload, and to its own output
VARIABLES
  sanPc,      \* "in", "once", "twice"
  sanIn,      \* the payload handed to analyzeWithGroq
  sanOut,     \* sanitizePayload(sanIn), the payload sent to the external service
  sanAgain    \* sanitizePayload(sanOut)

\* analyzeWithGroq on one reply whose content is prose around an object
VARIABLES
  parsePc,    \* "reply", "parsed"
  parseAd,    \* revision of groqAdapter.ts: "old" or "new"
  parseText,  \* choices[0].message.content, a text
  parseDoc,   \* the object the embedded JSON denotes
  parseOut    \* the outcome of analyzeWithGroq

\* two analyze requests in flight, the health route, the rate limiter
VARIABLES
  route,        \* revision of routes/analyze.ts: "limited" or "plain"
  records,      \* the HealthRecord collection, in order of creation
  store0,       \* the collection when the two requests were issued
  consumed,     \* rate limiter: points consumed per key in the current window
  reqs,         \* per analyze request: its body, its position, what it did
  posted        \* subjects a health record was stored for since the issue

\* one call of analyzeBatch
VARIABLES
  bPc,        \* "loop", "awaiting", "pausing", "done"
  bN,         \* analyses.length
  bSize,      \* batchSize
  bI,         \* the loop index i
  bInflight,  \* positions whose analyzeMerged promise is pending
  bOutcome,   \* per position: "pending", "fulfilled" or "rejected"
  bResults,   \* results
  bPauses,    \* durations of the pauses performed, in order
  bGroups     \* groups started so far

\* analyzeMerged of part_000 on one value returned by the adapter
VARIABLES
  upPc,       \* "raw", "returned", "threw"
  upRaw,      \* the value withRetries returned
  upShape,    \* the branch taken: "v2", "legacy", "invalid"
  upOut       \* the value analyzeMerged returns

pipeVars == <<svc, adapter, merged, pc, i, lastErr, thrown, calls, delays, modelDoc, raw, shape,
              result, raised, log, store, response>>
sanVars == <<sanPc, sanIn, sanOut, sanAgain>>
parseVars == <<parsePc, parseAd, parseText, parseDoc, parseOut>>
routeVars == <<route, records, store0, consumed, reqs, posted>>
batchVars == <<bPc, bN, bSize, bI, bInflight, bOutcome, bResults, bPauses, bGroups>>
upVars == <<upPc, upRaw, upShape, upOut>>
others == <<sanVars, parseVars, routeVars, batchVars, upVars>>
vars == <<pipeVars, others>>

SanIdle ==
  /\ sanPc = "idle"
  /\ sanIn = EmptyPayload
  /\ sanOut = EmptyPayload
  /\ sanAgain = EmptyPayload
ParseIdle ==
  /\ parsePc = "idle"
  /\ parseAd = "new"
  /\ parseText = <<>>
  /\ parseDoc = EmptyDoc
  /\ parseOut = Threw(NoErr)
RouteIdle ==
  /\ route = "limited"
  /\ records = <<>>
  /\ store0 = <<>>
  /\ consumed = [k \in Keys |-> 0]
  /\ reqs = [r \in Reqs |-> Request("", "absent", "none")]
  /\ posted = {}
BatchIdle ==
  /\ bPc = "idle"
  /\ bN = 0
  /\ bSize = 1
  /\ bI = 0
  /\ bInflight = {}
  /\ bOutcome = [k \in 1..MaxItems |-> "pending"]
  /\ bResults = <<>>
  /\ bPauses = <<>>
  /\ bGroups = 0
UpIdle ==
  /\ upPc = "idle"
  /\ upRaw = EmptyDoc
  /\ upShape = "none"
  /\ upOut = EmptyDoc
OthersIdle == SanIdle /\ ParseIdle /\ RouteIdle /\ BatchIdle /\ UpIdle
notSan == <<pipeVars, parseVars, routeVars, batchVars, upVars>>
notParse == <<pipeVars, sanVars, routeVars, batchVars, upVars>>
notRoute == <<pipeVars, sanVars, parseVars, batchVars, upVars>>
notBatch == <<pipeVars, sanVars, parseVars, routeVars, upVars>>
notUp == <<pipeVars, sanVars, parseVars, routeVars, batchVars>>

LogEntry(level, event, doc) == [level |-> level, event |-> event, raw |-> doc]
NoResponse == [status |-> 0, ok |-> FALSE, analysis |-> EmptyDoc, error |-> ""]

Init ==
  /\ svc \in {"flat", "split"}
  /\ adapter \in {"old", "new"}
  /\ merged \in {"object", "undefined"}
  /\ pc = "start"
  /\ i = 0
  /\ lastErr = NoErr
  /\ thrown = <<>>
  /\ calls = 0
  /\ delays = <<>>
  /\ modelDoc = EmptyDoc
  /\ raw = EmptyDoc
  /\ shape = "none"
  /\ result = EmptyDoc
  /\ raised = NoErr
  /\ log = <<>>
  /\ store = <<>>
  /\ response = NoResponse
  /\ OthersIdle

\* analyzeMerged: if (!mergedPayload) throw new Error('mergedPayload is required')
Guard ==
  /\ pc = "start"
  /\ IF merged = "undefined"
     THEN /\ pc' = "threwGuard"
          /\ raised' = ErrorOf(0, "", MsgMissing, 0)
     ELSE /\ pc' = "call"
          /\ UNCHANGED raised
  /\ UNCHANGED <<svc, adapter, merged, i, lastErr, thrown, calls, delays, modelDoc, raw, shape,
                 result, log, store, response>>
  /\ UNCHANGED others

\* withRetries: one pass of the loop body, `return await fn()` and its catch
Attempt ==
  /\ pc = "call"
  /\ \E r \in Replies :
       LET out == analyzeWithGroq(adapter, r, calls + 1)
       IN  /\ calls' = calls + 1
           /\ IF out.ok
              THEN /\ raw' = out.value
                   /\ modelDoc' = out.parsed
                   /\ pc' = "returned"
                   /\ UNCHANGED <<i, lastErr, thrown, raised, log>>
              ELSE /\ lastErr' = out.err
                   /\ thrown' = Append(thrown, [err |-> out.err, cause |-> r.fail])
                   /\ UNCHANGED <<raw, modelDoc>>
                   /\ IF Retried(svc, out.err)
                      THEN /\ log' = Append(log, LogEntry("warn", "retry", EmptyDoc))
                           /\ IF SleepsAfter(svc, i)
                              THEN /\ pc' = "sleep"
                                   /\ UNCHANGED <<i, raised>>
                              ELSE /\ i' = i + 1
                                   /\ IF LoopContinues(i + 1)
                                      THEN pc' = "call" /\ UNCHANGED raised
                                      ELSE pc' = "threwRetry" /\ raised' = out.err
                      ELSE /\ pc' = "threwRetry"
                           /\ raised' = out.err
                           /\ UNCHANGED <<i, log>>
  /\ UNCHANGED <<svc, adapter, merged, delays, shape, result, store, response>>
  /\ UNCHANGED others

\* withRetries: the setTimeout elapses, the loop goes on or ends with throw lastErr
Sleep ==
  /\ pc = "sleep"
  /\ delays' = Append(delays, DelayFor(svc, i))
  /\ i' = i + 1
  /\ IF LoopContinues(i + 1)
     THEN pc' = "call" /\ UNCHANGED raised
     ELSE pc' = "threwRetry" /\ raised' = lastErr
  /\ UNCHANGED <<svc, adapter, merged, lastErr, thrown, calls, modelDoc, raw, shape, result, log,
                 store, response>>
  /\ UNCHANGED others

\* analyzeMerged after withRetries returned: validate, convert, log, return or throw
\* (the locals of withRetries are gone)
Validate ==
  /\ pc = "returned"
  /\ LET sh == ResolveShape(svc, raw)
     IN  /\ shape' = sh
         /\ result' = ShapedResult(sh, raw)
         /\ IF sh = "invalid"
            THEN /\ pc' = "threwSchema"
                 /\ raised' = ErrorOf(0, "", IF svc = "flat" THEN MsgInvalidFlat
                                            ELSE MsgInvalidV2, 0)
                 /\ log' = Append(log, LogEntry("error", "invalid schema", raw))
            ELSE /\ pc' = "done"
                 /\ UNCHANGED raised
                 /\ log' = Append(log,
                      IF sh = "legacy" THEN LogEntry("warn", "legacy converted", EmptyDoc)
                      ELSE LogEntry("info", "analysis ok", EmptyDoc))
  /\ i' = 0 /\ lastErr' = NoErr /\ thrown' = <<>>
  /\ UNCHANGED <<svc, adapter, merged, calls, delays, modelDoc, raw, store, response>>
  /\ UNCHANGED others

\* route: await HealthRecord.create({ userId, source: 'analysis', payload: analysis })
Save ==
  /\ pc = "done"
  /\ store' = Append(store, [source |-> "analysis", payload |-> result])
  /\ pc' = "saved"
  /\ UNCHANGED <<svc, adapter, merged, i, lastErr, thrown, calls, delays, modelDoc, raw, shape,
                 result, raised, log, response>>
  /\ UNCHANGED others

\* route: res.json({ ok: true, analysis })
Respond ==
  /\ pc = "saved"
  /\ response' = [status |-> 200, ok |-> TRUE, analysis |-> result, error |-> ""]
  /\ pc' = "responded"
  /\ UNCHANGED <<svc, adapter, merged, i, lastErr, thrown, calls, delays, modelDoc, raw, shape,
                 result, raised, log, store>>
  /\ UNCHANGED others

\* route: res.status(500).json({ ok: false, error: err.message })
Reject ==
  /\ pc \in {"threwGuard", "threwRetry", "threwSchema"}
  /\ response' = [status |-> 500, ok |-> FALSE, analysis |-> EmptyDoc, error |-> raised.msg]
  /\ pc' = "rejected"
  /\ UNCHANGED <<svc, adapter, merged, i, lastErr, thrown, calls, delays, modelDoc, raw, shape,
                 result, raised, log, store>>
  /\ UNCHANGED others

Next == Guard \/ Attempt \/ Sleep \/ Validate \/ Save \/ Respond \/ Reject

Spec == Init /\ [][Next]_vars

\* ---------------------------------------------- specification: sanitizer
PipeIdle ==
  /\ svc = "flat"
  /\ adapter = "new"
  /\ merged = "object"
  /\ pc = "idle"
  /\ i = 0
  /\ lastErr = NoErr
  /\ thrown = <<>>
  /\ calls = 0
  /\ delays = <<>>
  /\ modelDoc = EmptyDoc
  /\ raw = EmptyDoc
  /\ shape = "none"
  /\ result = EmptyDoc
  /\ raised = NoErr
  /\ log = <<>>
  /\ store = <<>>
  /\ response = NoResponse

InitSanitize ==
  /\ PipeIdle
  /\ ParseIdle
  /\ RouteIdle
  /\ BatchIdle
  /\ UpIdle
  /\ sanPc = "in"
  /\ sanIn \in DirectInputs \cup MergedInputs
  /\ sanOut = EmptyPayload
  /\ sanAgain = EmptyPayload

\* analyzeWithGroq: const sanitized = sanitizePayload(mergedData)
SanitizeOnce ==
  /\ sanPc = "in"
  /\ sanOut' = sanitizePayload(sanIn)
  /\ sanPc' = "once"
  /\ UNCHANGED <<sanIn, sanAgain, notSan>>

\* sanitizePayload applied to a payload that is already sanitized
SanitizeAgain ==
  /\ sanPc = "once"
  /\ sanAgain' = sanitizePayload(sanOut)
  /\ sanPc' = "twice"
  /\ UNCHANGED <<sanIn, sanOut, notSan>>

NextSanitize == SanitizeOnce \/ SanitizeAgain

SpecSanitize == InitSanitize /\ [][NextSanitize]_vars

\* ------------------------------------- specification: prose-wrapped reply
ParseDocs == {d \in Docs : d.predictions = Absent /\ d.explainability = "absent"}

InitParse ==
  /\ PipeIdle
  /\ SanIdle
  /\ RouteIdle
  /\ BatchIdle
  /\ UpIdle
  /\ parsePc = "reply"
  /\ parseAd \in {"old", "new"}
  /\ parseText \in WrappedTexts
  /\ parseDoc \in ParseDocs
  /\ parseOut = Threw(NoErr)

\* analyzeWithGroq, called once, on a completion whose content is parseText
ParseReply ==
  /\ parsePc = "reply"
  /\ parseOut' = analyzeWithGroq(parseAd, ReplyOf("text", NoFailure, parseText, parseDoc), 1)
  /\ parsePc' = "parsed"
  /\ UNCHANGED <<parseAd, parseText, parseDoc, notParse>>

NextParse == ParseReply

SpecParse == InitParse /\ [][NextParse]_vars

\* ------------------------- specification: concurrent requests to the routes
InitRoute ==
  /\ PipeIdle
  /\ SanIdle
  /\ ParseIdle
  /\ BatchIdle
  /\ UpIdle
  /\ route \in {"limited", "plain"}
  /\ records \in {<<>>, <<HealthDoc("u1"), HealthDoc("u2")>>}
  /\ store0 = records
  /\ \E c \in {0, Points - 1, Points} : consumed = [k \in Keys |-> c]
  /\ \E u \in Subjects \cup {""}, life \in {"absent", "given"}, auth \in {"none", "a1", "nosub"} :
        reqs = [r \in Reqs |-> IF r = 1 THEN Request("u1", "given", "a1")
                               ELSE Request(u, life, auth)]
  /\ posted = {}

\* the body is checked, then HealthRecord.find is issued, or 400 is sent
Validated(rt, q) ==
  IF ValidBody(rt, q.userId, q.life)
  THEN [q EXCEPT !.pc = "finding"]
  ELSE [q EXCEPT !.pc = "responded", !.status = 400]

\* authMiddleware, then rl.consume(key) is issued (or, without the limiter,
\* the handler starts)
Arrive(r) ==
  /\ reqs[r].pc = "new"
  /\ reqs' = [reqs EXCEPT ![r] =
        IF @.auth = "none" THEN [@ EXCEPT !.pc = "responded", !.status = 401]
        ELSE IF route = "limited" THEN [@ EXCEPT !.pc = "consuming"]
        ELSE Validated(route, @)]
  /\ UNCHANGED <<route, records, store0, consumed, posted, notRoute>>

\* rl.consume(key) settles: it resolves and next() runs the handler, or it
\* rejects, because no point is left or because the limiter's store failed
Consumed(r) ==
  /\ reqs[r].pc = "consuming"
  /\ \E fault \in BOOLEAN :
       LET key == KeyOf(reqs[r].auth)
           spent == consumed[key] >= Points
           seen == [reqs[r] EXCEPT !.exhausted = IF spent THEN "yes" ELSE "no"]
       IN  IF fault
           THEN /\ reqs' = [reqs EXCEPT ![r] = [seen EXCEPT !.pc = "responded", !.status = 429]]
                /\ UNCHANGED consumed
           ELSE /\ consumed' = [consumed EXCEPT ![key] = @ + 1]
                /\ reqs' = [reqs EXCEPT ![r] =
                      IF spent THEN [seen EXCEPT !.pc = "responded", !.status = 429]
                      ELSE Validated(route, seen)]
  /\ UNCHANGED <<route, records, store0, posted, notRoute>>

\* find settles: merged is built and analyzeMerged is called
Found(r) ==
  /\ reqs[r].pc = "finding"
  /\ reqs' = [reqs EXCEPT ![r] =
        [@ EXCEPT !.pc = "analyzing",
                  !.docs = Find(records, reqs[r].userId, Limit(route)),
                  !.foundLen = Len(records),
                  !.calls = @ + 1]]
  /\ UNCHANGED <<route, records, store0, consumed, posted, notRoute>>

\* analyzeMerged settles: HealthRecord.create is issued, or the error is
\* answered with 500 (the catch block, or the global error handler)
Analyzed(r) ==
  /\ reqs[r].pc = "analyzing"
  /\ \E ok \in BOOLEAN :
       reqs' = [reqs EXCEPT ![r] =
         IF ok THEN [@ EXCEPT !.pc = "creating"]
         ELSE [@ EXCEPT !.pc = "responded", !.status = 500]]
  /\ UNCHANGED <<route, records, store0, consumed, posted, notRoute>>

\* the database performs HealthRecord.create, or fails to
Stored(r) ==
  /\ reqs[r].pc = "creating"
  /\ \E ok \in BOOLEAN :
       IF ok
       THEN /\ records' = Create(records,
                  Record(reqs[r].userId, "analysis", r,
                         MergedIds(reqs[r].docs, LifeOf(route, reqs[r].life))))
            /\ reqs' = [reqs EXCEPT ![r] = [@ EXCEPT !.pc = "created"]]
       ELSE /\ reqs' = [reqs EXCEPT ![r] = [@ EXCEPT !.pc = "responded", !.status = 500]]
            /\ UNCHANGED records
  /\ UNCHANGED <<route, store0, consumed, posted, notRoute>>

\* res.json({ ok: true, analysis })
Responded(r) ==
  /\ reqs[r].pc = "created"
  /\ reqs' = [reqs EXCEPT ![r] = [@ EXCEPT !.pc = "responded", !.status = 200]]
  /\ UNCHANGED <<route, records, store0, consumed, posted, notRoute>>

\* POST /api/health: 400 without userId or payload, else the record is created
HealthPost ==
  /\ Len(records) < MaxStore
  /\ \E u \in Subjects \cup {""}, payload \in {"absent", "given"} :
       IF u = "" \/ payload = "absent"
       THEN UNCHANGED <<records, posted>>
       ELSE /\ records' = Create(records, HealthDoc(u))
            /\ posted' = posted \cup {u}
  /\ UNCHANGED <<route, store0, consumed, reqs, notRoute>>

ArriveSome == \E r \in Reqs : Arrive(r)
ConsumedSome == \E r \in Reqs : Consumed(r)
FoundSome == \E r \in Reqs : Found(r)
AnalyzedSome == \E r \in Reqs : Analyzed(r)
StoredSome == \E r \in Reqs : Stored(r)
RespondedSome == \E r \in Reqs : Responded(r)

NextRoute ==
  \/ ArriveSome
  \/ ConsumedSome
  \/ FoundSome
  \/ AnalyzedSome
  \/ StoredSome
  \/ RespondedSome
  \/ HealthPost

SpecRoute == InitRoute /\ [][NextRoute]_vars

\* ------------------------------------------- specification: analyzeBatch
InitBatch ==
  /\ PipeIdle
  /\ SanIdle
  /\ ParseIdle
  /\ RouteIdle
  /\ UpIdle
  /\ bPc = "loop"
  /\ bN \in 0..MaxItems
  /\ bSize \in 1..MaxBatch
  /\ bI = 0
  /\ bInflight = {}
  /\ bOutcome = [k \in 1..MaxItems |-> "pending"]
  /\ bResults = <<>>
  /\ bPauses = <<>>
  /\ bGroups = 0

\* the loop test; batch.map(... analyzeMerged ...) starts the group's requests
StartGroup ==
  /\ bPc = "loop"
  /\ IF bI < bN
     THEN /\ bInflight' = bInflight \cup BatchOf(bI, bSize, bN)
          /\ bGroups' = bGroups + 1
          /\ bPc' = "awaiting"
     ELSE /\ bPc' = "done"
          /\ UNCHANGED <<bInflight, bGroups>>
  /\ UNCHANGED <<bN, bSize, bI, bOutcome, bResults, bPauses, notBatch>>

\* one analyzeMerged promise settles
Settle ==
  /\ \E k \in bInflight, o \in {"fulfilled", "rejected"} :
       /\ bInflight' = bInflight \ {k}
       /\ bOutcome' = [bOutcome EXCEPT ![k] = o]
  /\ UNCHANGED <<bPc, bN, bSize, bI, bResults, bPauses, bGroups, notBatch>>

\* Promise.allSettled resolves: the results are collected; the pause is
\* started, or the loop goes on
Collect ==
  /\ bPc = "awaiting"
  /\ BatchOf(bI, bSize, bN) \cap bInflight = {}
  /\ bResults' = bResults \o Collected(bOutcome, bI + 1, IF bI + bSize < bN THEN bI + bSize ELSE bN)
  /\ IF PauseNeeded(bI, bSize, bN)
     THEN /\ bPc' = "pausing"
          /\ UNCHANGED bI
     ELSE /\ bPc' = "loop"
          /\ bI' = bI + bSize
  /\ UNCHANGED <<bN, bSize, bInflight, bOutcome, bPauses, bGroups, notBatch>>

\* the setTimeout of the pause elapses; i += batchSize
Pause ==
  /\ bPc = "pausing"
  /\ bPauses' = Append(bPauses, BatchDelayMs)
  /\ bI' = bI + bSize
  /\ bPc' = "loop"
  /\ UNCHANGED <<bN, bSize, bInflight, bOutcome, bResults, bGroups, notBatch>>

NextBatch == StartGroup \/ Settle \/ Collect \/ Pause

SpecBatch == InitBatch /\ [][NextBatch]_vars

\* ------------------------------- specification: schema fallback of part_000
\* a prediction whose probability is 0
ZeroPct == [condition |-> "Hypertension", years |-> 0, probability_pct |-> 0]
LegacyPreds == PredValues \cup {ZeroPct}
\* replies of the external model, as the adapter returns them
UpgradeInputs ==
  {Backfill([model_version |-> mv, generated_on |-> "absent", summary |-> "absent",
             predictions |-> pr, baseline |-> sp.baseline, projection |-> sp.projection,
             deltas |-> sp.deltas, explainability |-> ex]) :
     mv \in ModelVersionValues,
     pr \in {Absent} \cup {Obj(q) : q \in SeqsUpTo(LegacyPreds, MaxPreds)},
     sp \in SplitValues, ex \in ExplainValues}

InitUpgrade ==
  /\ PipeIdle
  /\ SanIdle
  /\ ParseIdle
  /\ RouteIdle
  /\ BatchIdle
  /\ upPc = "raw"
  /\ upRaw \in UpgradeInputs
  /\ upShape = "none"
  /\ upOut = EmptyDoc

\* analyzeMerged of part_000 after withRetries returned: AnalysisV2, else
\* LegacyAnalysis and the conversion, else the throw
Convert ==
  /\ upPc = "raw"
  /\ LET sh == ResolveShape("split", upRaw)
     IN  /\ upShape' = sh
         /\ upOut' = ShapedResult(sh, upRaw)
         /\ upPc' = IF sh = "invalid" THEN "threw" ELSE "returned"
  /\ UNCHANGED <<upRaw, notUp>>

NextUpgrade == Convert

SpecUpgrade == InitUpgrade /\ [][NextUpgrade]_vars


\* ================================================================ claims
Failures == Len(thrown)

\* section 4.1 of the specification: a status >= 500, a status 429, or no status
\* code of any kind
SpecTransient(e) ==
  e.status >= 500 \/ e.status = 429 \/ (e.status = 0 /\ e.code = "")
\* an error carrying a status that is neither >= 500 nor 429
HasNonTransientStatus(e) == e.status # 0 /\ e.status < 500 /\ e.status # 429
AllSpecTransient == \A k \in 1..Len(thrown) : SpecTransient(thrown[k].err)
AllNonTransientStatus == \A k \in 1..Len(thrown) : HasNonTransientStatus(thrown[k].err)

\* the delays of the first n retries, per revision
RECURSIVE Pow2(_)
Pow2(n) == IF n = 0 THEN 1 ELSE 2 * Pow2(n - 1)
ExpectedDelays(n) ==
  [k \in 1..n |-> IF svc = "flat" THEN BaseDelayMs * Pow2(k - 1) ELSE DelayMs]

\* C1: an operation that fails with an error whose status is neither >= 500
\* nor 429 is called once; withRetries sleeps zero times and rethrows that
\* very error.
C1_NonTransientRethrownAtOnce ==
  (Failures >= 1 /\ AllNonTransientStatus) =>
     /\ pc \in {"threwRetry", "rejected"}
     /\ calls = 1
     /\ delays = <<>>
     /\ raised = thrown[1].err

\* C2: after k < Retries transient failures the operation is not given up; when
\* it then succeeds withRetries returns after exactly k + 1 calls and k sleeps,
\* the sleep after failure number j (from 0) lasting BaseDelayMs * 2^j in the
\* back-off revision and DelayMs in the fixed-delay revision.
C2_TransientThenSuccess ==
  AllSpecTransient =>
     /\ pc = "threwRetry" => Failures = Retries
     /\ pc = "returned" =>
          /\ Failures < Retries
          /\ calls = Failures + 1
          /\ delays = ExpectedDelays(Failures)
          /\ raised = NoErr

C2_Witness ==
  /\ pc = "returned"
  /\ svc = "flat"
  /\ Failures = 2
  /\ AllSpecTransient
  /\ delays = <<500, 1000>>

\* C3: withRetries never calls the operation more than Retries times; when
\* every attempt fails transiently it stops after exactly Retries calls and
\* raises the error of the last attempt.
C3_ExhaustedRaisesLast ==
  /\ calls <= Retries
  /\ i <= Retries
  /\ Len(delays) <= Retries
  /\ (pc = "threwRetry" /\ AllSpecTransient) =>
        /\ calls = Retries
        /\ Failures = Retries
        /\ raised = thrown[Retries].err
        /\ raised.at = Retries

C3_Witness ==
  /\ pc = "threwRetry"
  /\ Failures = Retries
  /\ AllSpecTransient
  /\ thrown[1].err.msg # thrown[Retries].err.msg
  /\ raised.at = Retries

\* C4: a failure is retried exactly when its status is >= 500, its status is
\* 429, or it has no HTTP status (a network-level failure, with or without a
\* socket error code); every other failure is rethrown at once.
C4Transient(e) == e.status >= 500 \/ e.status = 429 \/ e.status = 0
C4_TransientClassification ==
  /\ \A k \in 1..(Failures - 1) : C4Transient(thrown[k].err)
  /\ pc \in {"call", "sleep", "returned"} => \A k \in 1..Failures : C4Transient(thrown[k].err)
  /\ (pc = "threwRetry" /\ Failures < Retries) => ~C4Transient(thrown[Failures].err)

\* C5: a reply that cannot be parsed, or that matches no schema, is not
\* retried: when the first reply is such, the service is called exactly once
\* and the request fails.
IsParseFailure(e) == e.msg \in {MsgParseBlock, MsgParseNoBlock}
C5_InvalidOutputNotRetried ==
  /\ (Failures >= 1 /\ IsParseFailure(thrown[1].err)) =>
        /\ pc \in {"threwRetry", "rejected"}
        /\ calls = 1
  /\ \A k \in 1..Failures : IsParseFailure(thrown[k].err) => calls = k
  /\ (pc = "threwSchema" /\ \A k \in 1..Len(log) : log[k].event # "retry") => calls = 1

\* C6: when the service rejects a request with a 4xx status other than 429,
\* exactly one request is sent and the failure is propagated without a sleep.
IsClientError(f) == f.status >= 400 /\ f.status <= 499 /\ f.status # 429
C6_ClientErrorPropagatedAtOnce ==
  (Failures >= 1 /\ IsClientError(thrown[1].cause)) =>
     /\ pc \in {"threwRetry", "rejected"}
     /\ calls = 1
     /\ delays = <<>>

\* C7: whatever analyzeMerged returns, and whatever the route stores with
\* source 'analysis' or sends back, has model_version and generated_on, well
\* formed optional baseline / projection / deltas, and no flat top-level
\* predictions list.
CurrentShape(d) ==
  /\ IsString(d.model_version)
  /\ IsString(d.generated_on)
  /\ d.predictions.tag = "absent"
  /\ d.baseline.tag = "absent" \/ AllPredOK(d.baseline.items)
  /\ d.projection.tag = "absent" \/ AllPredOK(d.projection.items)
C7_AlwaysCurrentShape ==
  /\ pc \in {"done", "saved", "responded"} => CurrentShape(result)
  /\ \A k \in 1..Len(store) : store[k].source = "analysis" => CurrentShape(store[k].payload)
  /\ response.ok => CurrentShape(response.analysis)

\* C8: a legacy-shape reply (metadata and a flat list of N predictions, no
\* baseline, no projection) makes analyzeMerged return a document whose
\* projection holds N predictions, whose baseline holds none, and whose N
\* deltas all have baseline_pct = -1 and delta_pct = -1.
IsLegacyReply(d) ==
  /\ d.predictions.tag = "obj"
  /\ AllPredOK(d.predictions.items)
  /\ d.baseline.tag = "absent" /\ d.projection.tag = "absent" /\ d.deltas.tag = "absent"
  /\ IsOptString(d.model_version) /\ IsOptString(d.generated_on)
C8_LegacyUpgraded ==
  (svc = "split" /\ pc \in {"done", "threwSchema"} /\ IsLegacyReply(modelDoc)) =>
     /\ pc = "done"
     /\ result.projection.tag = "obj"
     /\ Len(result.projection.items) = Len(modelDoc.predictions.items)
     /\ result.baseline = Obj(<<>>)
     /\ result.deltas.tag = "obj"
     /\ Len(result.deltas.items) = Len(modelDoc.predictions.items)
     /\ \A k \in 1..Len(result.deltas.items) :
          result.deltas.items[k].baseline_pct = -100 /\ result.deltas.items[k].delta_pct = -100

\* C9: a reply that is valid JSON but lacks a required field (a prediction
\* without its condition name, a document without model_version) makes
\* analyzeMerged fail with the invalid-output error, the raw reply attached to
\* the error log entry; no result is returned.
HasNameless(f) == f.tag = "obj" /\ ~AllPredOK(f.items)
LacksRequired(d) ==
  \/ d.model_version = "absent"
  \/ HasNameless(d.predictions) \/ HasNameless(d.baseline) \/ HasNameless(d.projection)
C9_MissingFieldRejected ==
  (pc \in {"done", "threwSchema"} /\ LacksRequired(modelDoc)) =>
     /\ pc = "threwSchema"
     /\ raised.msg \in {MsgInvalidFlat, MsgInvalidV2}
     /\ log[Len(log)] = LogEntry("error", "invalid schema", raw)

\* C10: a reply that validates as the current shape is returned on the
\* current-shape path without the fallback warning; the legacy conversion is
\* taken only when current-shape validation failed; the fallback warning is
\* logged exactly when the result returned is an upgraded legacy reply.
FallbackWarned ==
  \E k \in 1..Len(log) : log[k].level = "warn" /\ log[k].event = "legacy converted"
C10_PriorityChain ==
  /\ (svc = "split" /\ shape # "none" /\ V2Valid(raw)) =>
        /\ shape = "v2"
        /\ pc \in {"done", "saved", "responded"}
        /\ ~FallbackWarned
  /\ shape = "legacy" => ~V2Valid(raw) /\ LegacyValid(raw)
  /\ FallbackWarned <=> (shape = "legacy" /\ pc \in {"done", "saved", "responded"})

C10_Witness ==
  /\ pc = "done"
  /\ shape = "legacy"
  /\ FallbackWarned
  /\ result.projection.tag = "obj" /\ Len(result.projection.items) = 2

\* C14: a well-formed current-shape reply (for instance one projection
\* prediction at 40% and no baseline) makes analyzeMerged succeed and return
\* the document with every field unchanged, probabilities at most rounded to
\* one decimal place.
WellFormedCurrent(d) ==
  /\ IsString(d.model_version)
  /\ IsString(d.generated_on)
  /\ d.predictions.tag = "absent"
  /\ d.baseline.tag = "absent" \/ AllPredOK(d.baseline.items)
  /\ d.projection.tag = "absent" \/ AllPredOK(d.projection.items)
  /\ d.explainability \in {"absent", "top_features"}
SamePredsUpToRounding(f, g) ==
  /\ f.tag = g.tag
  /\ Len(f.items) = Len(g.items)
  /\ \A k \in 1..Len(f.items) :
       /\ f.items[k].condition = g.items[k].condition
       /\ f.items[k].years = g.items[k].years
       /\ f.items[k].probability_pct \in
            {g.items[k].probability_pct, RoundPct(g.items[k].probability_pct)}
SameUpToRounding(d, e) ==
  /\ d.model_version = e.model_version
  /\ d.generated_on = e.generated_on
  /\ d.summary = e.summary
  /\ d.explainability = e.explainability
  /\ d.deltas = e.deltas
  /\ SamePredsUpToRounding(d.predictions, e.predictions)
  /\ SamePredsUpToRounding(d.baseline, e.baseline)
  /\ SamePredsUpToRounding(d.projection, e.projection)
C14_CurrentShapeReturnedUnchanged ==
  (pc \in {"done", "threwSchema"} /\ WellFormedCurrent(modelDoc)) =>
     /\ pc = "done"
     /\ SameUpToRounding(result, modelDoc)

\* C19: withRetries sleeps only between attempts: when it ends, by returning or
\* by throwing, it has slept fewer times than it has called the operation.
C19_SleepsOnlyBetweenAttempts ==
  pc \in {"returned", "threwRetry"} => Len(delays) <= calls - 1

\* C11: sanitizePayload is idempotent: sanitizing its own output gives that
\* output again, whatever the length of abha_id and of notes.
C11_SanitizeIdempotent ==
  sanPc = "twice" => sanAgain = sanOut

\* C12: the output of sanitizePayload has no name, email or phone key, and its
\* abha_id, when it is a string the function wrote, is at most the 'user_' tag
\* followed by six characters.
C12_NoDirectIdentifiers ==
  sanPc \in {"once", "twice"} =>
     /\ sanOut.name = "absent"
     /\ sanOut.email = "absent"
     /\ sanOut.phone = "absent"
     /\ Len(sanOut.abha_id.chars) <= Len(UserTag) + AbhaKeep
C12_Witness ==
  /\ sanPc = "once"
  /\ sanIn.name # "absent"
  /\ sanIn.email # "absent"
  /\ sanIn.phone # "absent"
  /\ sanIn.abha_id.kind = "str"
  /\ Len(sanIn.abha_id.chars) > AbhaKeep
  /\ sanOut.abha_id = Prop("str", UserTag \o SliceLast(sanIn.abha_id.chars, AbhaKeep))
  /\ Len(sanOut.abha_id.chars) = Len(UserTag) + AbhaKeep

\* C20: the payload sent for a request built by the analyze route holds no
\* name, email or phone value, neither at its top level nor inside the
\* baseline records or the lifestyle object.
HasPII(o) == o.name # "absent" \/ o.email # "absent" \/ o.phone # "absent"
ContainsPII(x) ==
  \/ HasPII(x)
  \/ HasPII(x.lifestyle)
  \/ \E k \in 1..Len(x.baselineRecords) : HasPII(x.baselineRecords[k].payload)
C20_NoPIISentAtAnyDepth ==
  (sanPc \in {"once", "twice"} /\ sanIn \in MergedInputs) => ~ContainsPII(sanOut)

\* C13: when the model's text is prose around exactly one JSON object,
\* analyzeWithGroq returns the value of that object, whatever the prose,
\* brace characters included.
C13_WrappedObjectExtracted ==
  parsePc = "parsed" =>
     /\ parseOut.ok
     /\ parseOut.parsed = parseDoc

\* C15: an analyze request answered with success has stored exactly one
\* 'analysis' record, and stored it before the response; one answered with a
\* failure has stored none; and every step of every route leaves the records
\* already stored as they are, so that the collection only grows.
AnalysesOf(r) ==
  {k \in 1..Len(records) : records[k].source = "analysis" /\ records[k].req = r}
C15_OnePerSuccess ==
  \A r \in Reqs :
    /\ Cardinality(AnalysesOf(r)) <= 1
    /\ reqs[r].status = 200 => Cardinality(AnalysesOf(r)) = 1
    /\ reqs[r].status \in {400, 401, 429, 500} => AnalysesOf(r) = {}
    /\ AnalysesOf(r) # {} => reqs[r].pc \in {"created", "responded"}
C15_OnlyGrows ==
  /\ Len(records') >= Len(records)
  /\ SubSeq(records', 1, Len(records)) = records
C15_OneImmutableRecordPerSuccess ==
  [](C15_OnePerSuccess) /\ [][C15_OnlyGrows]_vars
C15_Witness ==
  /\ reqs[1].status = 200
  /\ Cardinality(AnalysesOf(1)) = 1
  /\ reqs[2].status = 500
  /\ reqs[2].calls = 1
  /\ AnalysesOf(2) = {}
  /\ Len(records) > Len(store0) + 1

\* C16: a request that finds the budget of its key exhausted is answered 429
\* (not 500), never calls analyzeMerged and stores no record; and a request is
\* answered 429 only if the budget of its key was exhausted.
C16_RejectedIffExhausted ==
  \A r \in Reqs :
    /\ reqs[r].exhausted = "yes" =>
         /\ reqs[r].status = 429
         /\ reqs[r].calls = 0
         /\ AnalysesOf(r) = {}
    /\ reqs[r].status = 429 => reqs[r].exhausted = "yes"

\* C17 (as stated): whatever the interleaving of the two analyze requests, the
\* merged payload each one sends, and the input of the record it stores, are
\* those of a run alone against the collection as it was when both were
\* issued (no health record being stored for its subject meanwhile).
Other(r) == 3 - r
SentMerged(r) == MergedIds(reqs[r].docs, LifeOf(route, reqs[r].life))
AloneMerged(r) ==
  MergedIds(Find(store0, reqs[r].userId, Limit(route)), LifeOf(route, reqs[r].life))
Undisturbed(r) == reqs[r].calls > 0 /\ reqs[r].userId \notin posted
AsAlone(r) ==
  /\ SentMerged(r) = AloneMerged(r)
  /\ \A k \in AnalysesOf(r) : records[k].input = AloneMerged(r)
C17_NoInteraction ==
  \A r \in Reqs : Undisturbed(r) => AsAlone(r)

\* C17 (amended): two analyze requests for different subjects do not
\* interact through the collection; for the same subject the records a
\* request finds are those of a run alone or the analysis record the other
\* request has stored meanwhile.
Ids(seq) == {seq[k] : k \in 1..Len(seq)}
C17_IsolatedAcrossSubjects ==
  \A r \in Reqs :
    Undisturbed(r) =>
      IF reqs[r].userId # reqs[Other(r)].userId
      THEN AsAlone(r)
      ELSE Ids(reqs[r].docs) \subseteq
             Ids(Find(store0, reqs[r].userId, Limit(route))) \cup AnalysesOf(Other(r))
C17_Witness ==
  /\ reqs[1].userId # reqs[2].userId
  /\ reqs[1].status = 200
  /\ reqs[2].status = 200
  /\ posted = {}
  /\ reqs[2].docs # <<>>
  /\ reqs[2].foundLen > Len(store0)
  /\ AsAlone(2)

\* C18: analyzeBatch has at most batchSize requests pending, all of the
\* current group; every request of the earlier groups has settled; one pause
\* of delayMs precedes each group but the first, and none follows the last.
C18_BoundedGroupsWithPauses ==
  /\ Cardinality(bInflight) <= bSize
  /\ bInflight \subseteq BatchOf(bI, bSize, bN)
  /\ \A k \in 1..bN : k <= bI => bOutcome[k] # "pending"
  /\ bPc \in {"loop", "pausing", "done"} => bInflight = {}
  /\ \A k \in 1..Len(bPauses) : bPauses[k] = BatchDelayMs
  /\ bPc \in {"awaiting", "pausing"} => Len(bPauses) = bGroups - 1
  /\ bPc = "loop" => Len(bPauses) = (IF bI < bN THEN bGroups ELSE bGroups - 1) \/ bGroups = 0
  /\ bPc = "done" => Len(bPauses) = (IF bGroups = 0 THEN 0 ELSE bGroups - 1)
C18_Witness ==
  /\ bPc = "done"
  /\ bGroups >= 2
  /\ bN > (bGroups - 1) * bSize
  /\ bN < bGroups * bSize
  /\ Len(bPauses) = bGroups - 1
  /\ \E k \in 1..bN : bOutcome[k] = "rejected"

\* C21: analyzeBatch returns one entry per request, in the order of the
\* input across the groups: entry k is the analysis of request k when it
\* succeeded and null when it failed; a failure neither makes the batch
\* reject nor touches another entry.  While the batch runs, results holds
\* the entries of the groups collected so far.
EntryOf(k) == IF bOutcome[k] = "fulfilled" THEN k ELSE 0
C21_OneEntryPerRequestInOrder ==
  /\ bPc # "rejected"
  /\ Len(bResults) <= bN
  /\ \A k \in 1..Len(bResults) : bResults[k] = EntryOf(k)
  /\ bPc = "done" => Len(bResults) = bN
C21_Witness ==
  /\ bPc = "done"
  /\ bGroups >= 2
  /\ Len(bResults) = bN
  /\ bSize >= 2
  /\ bOutcome[1] = "rejected" /\ bResults[1] = 0
  /\ bOutcome[2] = "fulfilled" /\ bResults[2] = 2
  /\ bOutcome[bN] = "fulfilled" /\ bResults[bN] = bN

\* C22: in a legacy-to-current upgrade the deltas follow the legacy
\* predictions position by position: deltas[k] has the condition of
\* predictions[k] and its probability as projection_pct, the values -1 and 0
\* included, and projection.predictions are the legacy predictions in order.
C22_DeltasFollowPredictions ==
  (upPc = "returned" /\ upShape = "legacy") =>
     /\ upOut.projection = Obj(upRaw.predictions.items)
     /\ upOut.deltas.tag = "obj"
     /\ Len(upOut.deltas.items) = Len(upRaw.predictions.items)
     /\ \A k \in 1..Len(upRaw.predictions.items) :
          /\ upOut.deltas.items[k].condition = upRaw.predictions.items[k].condition
          /\ upOut.deltas.items[k].projection_pct = upRaw.predictions.items[k].probability_pct
C22_Witness ==
  /\ upPc = "returned"
  /\ upShape = "legacy"
  /\ upRaw.predictions.items = <<CVD, ZeroPct>>
  /\ upOut.projection.items = <<CVD, ZeroPct>>
  /\ upOut.deltas.items[1].projection_pct = -100
  /\ upOut.deltas.items[2].projection_pct = 0
  /\ upOut.deltas.items[2].condition = "Hypertension"

====
